---- MODULE Spec2Model ----
(***************************************************************************)
(* Model of the csv_merger transaction pipeline: the persistent store      *)
(* (dbmodels.py), the Deduplication Gate and the ingestion orchestrators   *)
(* (main.py, streamlit_app.py, app.py), the header mapper and the amount   *)
(* reconciliation of csv_reader (main.py).                                 *)
(*                                                                         *)
(* Values.  Dates are day numbers, amounts are integers in the unit of the *)
(* store's Numeric(10,4) column, so that the store keeps every amount of   *)
(* the model exactly.  Null is Python's None / pandas' NaN for a text      *)
(* cell.                                                                   *)
(***************************************************************************)
EXTENDS Integers, Sequences, FiniteSets, TLC

VARIABLES
    accountTransaction,  \* rows of table accountTransaction, in insertion order
    vendor,              \* vendor_name of the rows of table vendor, in insertion order
    user_id,             \* st.session_state["user_id"]; 0 when nobody is logged in
    run,                 \* the activation of main.read_all_csv_from_folder
    last_call,           \* the last call of a store operation: its argument, outcome and the table before it
    procs,               \* concurrent activations of store_transaction_in_db
    app,                 \* the activation of app.save_combined_csv_to_db
    hm,                  \* the activation of main.mapper
    rd,                  \* the activation of main.csv_reader
    up                   \* the activation of streamlit_app.process_csv_files

vars == <<accountTransaction, vendor, user_id, run, last_call, procs, app, hm, rd, up>>

Null == "<null>"

(***************************************************************************)
(* Candidate rows (rows of combined_df).  Row0 is the base row; each of    *)
(* RowTd, RowPd, RowAmt, RowDesc differs from it in exactly one field of   *)
(* the natural key.  RowNoDesc is a row of a file without a description    *)
(* column: csv_reader adds no vendorName to it (main.py:179).              *)
(***************************************************************************)
Row0 ==
    [transaction_date |-> 1, posting_date |-> 1, amount |-> 5,
     description |-> "ACME store 12", vendorName |-> "ACME store"]

RowTd == [Row0 EXCEPT !.transaction_date = 2]

RowPd == [Row0 EXCEPT !.posting_date = 2]

RowAmt == [Row0 EXCEPT !.amount = -5]

RowDesc == [Row0 EXCEPT !.description = "BOLT shop 7", !.vendorName = "BOLT shop"]

RowNoDesc == [Row0 EXCEPT !.description = Null, !.vendorName = Null]

RowSet == {Row0, RowTd, RowPd, RowAmt, RowDesc, RowNoDesc}

\* What the store can do to a call: work, fail while it is queried, fail while it is written.
Faults == {"none", "query", "write"}

NoCall ==
    [op |-> "none", row |-> Row0, result |-> "none", before |-> <<>>, vendors |-> <<>>,
     user |-> 0, fault |-> "none"]

(***************************************************************************)
(* main.store_transaction_in_db                                            *)
(***************************************************************************)
\* A stored row that a copy-and-paste slip in the filter would look for:
\* posting_date compared with the candidate's transaction_date.
ExistingTransactionSlip(tx, row) ==
    \E i \in DOMAIN tx :
        /\ tx[i].transaction_date = row.transaction_date
        /\ tx[i].posting_date = row.transaction_date
        /\ tx[i].amount = row.amount
        /\ tx[i].description = row.description

\* A filter that forgets the amount.
ExistingTransactionNoAmount(tx, row) ==
    \E i \in DOMAIN tx :
        /\ tx[i].transaction_date = row.transaction_date
        /\ tx[i].posting_date = row.posting_date
        /\ tx[i].description = row.description

\* session.query(AccountTransaction).filter(...).first() is not None
ExistingTransaction(tx, row) ==
    \E i \in DOMAIN tx :
        /\ tx[i].transaction_date = row.transaction_date
        /\ tx[i].posting_date = row.posting_date
        /\ tx[i].amount = row.amount
        /\ tx[i].description = row.description

\* A lookup that never finds the vendor.
FindVendorNone(vd, name) == 0

\* session.query(Vendor).filter_by(vendor_name=name).first(): its vendor_id, 0 for None
FindVendor(vd, name) ==
    IF \E i \in DOMAIN vd : vd[i] = name
    THEN CHOOSE i \in DOMAIN vd : vd[i] = name /\ \A j \in DOMAIN vd : vd[j] = name => i <= j
    ELSE 0

\* AccountTransaction(...) as the gate builds it
NewTransaction(row, vid, uid) ==
    [transaction_date |-> row.transaction_date, posting_date |-> row.posting_date,
     amount |-> row.amount, description |-> row.description,
     vendor_id |-> vid, created_by |-> uid]

\* A write path whose failure keeps the vendor it had flushed: no rollback.
WriteThroughNoRollback(tx, vd, row, uid, fault) ==
    LET v == FindVendor(vd, row.vendorName) IN
    IF v = 0 /\ row.vendorName = Null
    THEN [tx |-> tx, vd |-> vd, result |-> "raised"]
    ELSE IF fault = "write"
    THEN [tx |-> tx, vd |-> IF v = 0 THEN Append(vd, row.vendorName) ELSE vd,
          result |-> "raised"]
    ELSE IF v = 0
    THEN [tx |-> Append(tx, NewTransaction(row, Len(vd) + 1, uid)),
          vd |-> Append(vd, row.vendorName), result |-> "stored"]
    ELSE [tx |-> Append(tx, NewTransaction(row, v, uid)), vd |-> vd, result |-> "stored"]

\* The part of the gate after the duplicate check: vendor find-or-create, insert, commit.
\* A failure rolls the session back: neither the vendor nor the transaction is kept.
WriteThrough(tx, vd, row, uid, fault) ==
    LET v == FindVendor(vd, row.vendorName) IN
    IF v = 0 /\ row.vendorName = Null
    THEN [tx |-> tx, vd |-> vd, result |-> "raised"]      \* None[:10] raises TypeError
    ELSE IF fault = "write"
    THEN [tx |-> tx, vd |-> vd, result |-> "raised"]
    ELSE IF v = 0
    THEN [tx |-> Append(tx, NewTransaction(row, Len(vd) + 1, uid)),
          vd |-> Append(vd, row.vendorName), result |-> "stored"]
    ELSE [tx |-> Append(tx, NewTransaction(row, v, uid)), vd |-> vd, result |-> "stored"]

\* result: "stored" is return True, "duplicate" is return False, "raised" is raise e
main_store_transaction_in_db(tx, vd, row, fault) ==
    IF fault = "query"
    THEN [tx |-> tx, vd |-> vd, result |-> "raised"]
    ELSE IF ExistingTransaction(tx, row)
    THEN [tx |-> tx, vd |-> vd, result |-> "duplicate"]
    ELSE WriteThrough(tx, vd, row, 1, fault)

(***************************************************************************)
(* main.read_all_csv_from_folder                                           *)
(***************************************************************************)
\* The files of a folder: what csv_reader returns for each, or that it raises.
File(rows, readable) == [rows |-> rows, readable |-> readable]

F0 == File(<<Row0>>, TRUE)

FPd == File(<<RowPd>>, TRUE)

FTdAmt == File(<<RowTd, RowAmt>>, TRUE)

FDesc == File(<<RowDesc, RowNoDesc>>, TRUE)

FBad == File(<<>>, FALSE)

\* The folders a run is started on: none, one or several files, two files with the
\* same row, files that differ in one field of the key, a file csv_reader rejects.
Folders ==
    {<<>>, <<FBad>>, <<F0>>, <<F0, F0>>, <<FPd, F0>>, <<FTdAmt>>, <<FDesc, FBad>>,
     <<F0, FTdAmt, FDesc>>}

ZeroStats == [total |-> 0, duplicates |-> 0, successful |-> 0, failed |-> 0]

IdleRun ==
    [pc |-> "idle", files |-> <<>>, next |-> 1, combined_df |-> <<>>, rows |-> <<>>,
     results |-> <<>>, transaction_stats |-> ZeroStats, moved |-> <<>>, exported |-> FALSE,
     output_file |-> <<>>]

\* all_files = [...]; combined_df = pd.DataFrame(); transaction_stats = {...}
MainStart(fs) ==
    /\ run.pc \in {"idle", "done", "aborted"}
    /\ run' = [IdleRun EXCEPT !.pc = "files", !.files = fs]
    /\ UNCHANGED <<accountTransaction, vendor, user_id, last_call, procs, app, hm, rd, up>>

\* What os.rename can do to a call: move the file, or raise OSError (the file is
\* held open by another program, or is gone, or the destination cannot be written).
Renames == {"moved", "raises"}

\* One iteration of "for file in all_files" on file f, the rename of the try block
\* ending in first and the rename of the except block in second.  The except block
\* is entered when csv_reader or the first rename raises; an exception of its own
\* rename is caught by nothing and ends read_all_csv_from_folder.
ReadFile(r, f, first, second) ==
    LET read == IF f.readable THEN [r EXCEPT !.combined_df = @ \o f.rows] ELSE r IN
    IF f.readable /\ first = "moved"
    THEN [read EXCEPT !.next = @ + 1, !.moved = Append(@, "already_processed")]
    ELSE IF second = "moved"
    THEN [read EXCEPT !.next = @ + 1, !.moved = Append(@, "not_processed")]
    ELSE [read EXCEPT !.pc = "aborted"]

\* one iteration of "for file in all_files"
MainReadFile ==
    /\ run.pc = "files"
    /\ run.next <= Len(run.files)
    /\ \E first \in Renames, second \in Renames :
          run' = ReadFile(run, run.files[run.next], first, second)
    /\ UNCHANGED <<accountTransaction, vendor, user_id, last_call, procs, app, hm, rd, up>>

\* "if not combined_df.empty": write the export and start storing, or return the stats
MainCombine ==
    /\ run.pc = "files"
    /\ run.next > Len(run.files)
    /\ run' = IF run.combined_df = <<>>
              THEN [run EXCEPT !.pc = "done"]
              ELSE [run EXCEPT !.pc = "rows", !.rows = run.combined_df, !.exported = TRUE,
                               !.output_file = run.combined_df]
    /\ UNCHANGED <<accountTransaction, vendor, user_id, last_call, procs, app, hm, rd, up>>

\* A count that forgets the rows whose store call raised.
CountNoFailed(stats, result) ==
    LET s == [stats EXCEPT !.total = @ + 1] IN
    CASE result = "stored" -> [s EXCEPT !.successful = @ + 1]
      [] result = "duplicate" -> [s EXCEPT !.duplicates = @ + 1]
      [] OTHER -> s

\* transaction_stats after one row whose store call ended in result
Count(stats, result) ==
    LET s == [stats EXCEPT !.total = @ + 1] IN
    CASE result = "stored" -> [s EXCEPT !.successful = @ + 1]
      [] result = "duplicate" -> [s EXCEPT !.duplicates = @ + 1]
      [] OTHER -> [s EXCEPT !.failed = @ + 1]

\* one iteration of "for _, row in combined_df.iterrows()"
MainStoreRow ==
    /\ run.pc = "rows"
    /\ run.rows # <<>>
    /\ \E fault \in Faults :
         LET row == Head(run.rows)
             r == main_store_transaction_in_db(accountTransaction, vendor, row, fault)
         IN /\ accountTransaction' = r.tx
            /\ vendor' = r.vd
            /\ run' = [run EXCEPT !.rows = Tail(@), !.results = Append(@, r.result),
                                  !.transaction_stats = Count(@, r.result)]
            /\ last_call' = [op |-> "main", row |-> row, result |-> r.result,
                             before |-> accountTransaction, vendors |-> vendor, user |-> 1,
                             fault |-> fault]
    /\ UNCHANGED <<user_id, procs, app, hm, rd, up>>

\* return transaction_stats
MainReturn ==
    /\ run.pc = "rows"
    /\ run.rows = <<>>
    /\ run' = [run EXCEPT !.pc = "done"]
    /\ UNCHANGED <<accountTransaction, vendor, user_id, last_call, procs, app, hm, rd, up>>

(***************************************************************************)
(* streamlit_app.store_transaction_in_db, the user-scoped gate             *)
(***************************************************************************)
\* The users that can log in (rows of table users).
Users == {1, 2}

\* check_existing_transaction: the filter names transaction_date, description,
\* amount and created_by; posting_date is not part of it.
check_existing_transaction(tx, row, uid) ==
    \E i \in DOMAIN tx :
        /\ tx[i].transaction_date = row.transaction_date
        /\ tx[i].description = row.description
        /\ tx[i].amount = row.amount
        /\ tx[i].created_by = uid

\* result: "stored" is status success, "duplicate" is status duplicate, "error" is status error
st_store_transaction_in_db(tx, vd, row, uid, fault) ==
    IF uid = 0
    THEN [tx |-> tx, vd |-> vd, result |-> "error"]       \* User not logged in
    ELSE IF fault = "query"
    THEN [tx |-> tx, vd |-> vd, result |-> "error"]
    ELSE IF check_existing_transaction(tx, row, uid)
    THEN [tx |-> tx, vd |-> vd, result |-> "duplicate"]
    ELSE LET w == WriteThrough(tx, vd, row, uid, fault) IN
         [w EXCEPT !.result = IF @ = "raised" THEN "error" ELSE @]

\* Rows that reach the gate from process_csv_files: every required column is present.
StRows == RowSet \ {RowNoDesc}

MaxStore == 3

\* login_page: st.session_state["user_id"] = user_data["user_id"]
Login(u) ==
    /\ user_id # u
    /\ user_id' = u
    /\ UNCHANGED <<accountTransaction, vendor, run, last_call, procs, app, hm, rd, up>>

\* logout
Logout ==
    /\ user_id # 0
    /\ user_id' = 0
    /\ UNCHANGED <<accountTransaction, vendor, run, last_call, procs, app, hm, rd, up>>

\* result = store_transaction_in_db(row), one iteration of the row loop of process_csv_files
StStoreRow(row) ==
    /\ Len(accountTransaction) < MaxStore
    /\ \E fault \in Faults :
         LET r == st_store_transaction_in_db(accountTransaction, vendor, row, user_id, fault) IN
         /\ accountTransaction' = r.tx
         /\ vendor' = r.vd
         /\ last_call' = [op |-> "st", row |-> row, result |-> r.result,
                          before |-> accountTransaction, vendors |-> vendor, user |-> user_id,
                          fault |-> fault]
    /\ UNCHANGED <<user_id, run, procs, app, hm, rd, up>>

(***************************************************************************)
(* app.save_combined_csv_to_db                                             *)
(***************************************************************************)
\* clean_value(row.get("vendorName")) is None, or the vendor get_or_create returns
RECURSIVE AppVendors(_, _)
AppVendors(vd, rows) ==
    IF rows = <<>> THEN vd
    ELSE LET name == Head(rows).vendorName
             vd1 == IF name = Null \/ FindVendor(vd, name) # 0 THEN vd ELSE Append(vd, name)
         IN AppVendors(vd1, Tail(rows))

\* records.append(AccountTransaction(...)) for every row of df; no row is looked up first
AppRecords(vd, rows) ==
    [i \in DOMAIN rows |->
        NewTransaction(rows[i],
                       IF rows[i].vendorName = Null THEN 0 ELSE FindVendor(vd, rows[i].vendorName),
                       1)]

\* The combined frames the page saves.
AppBatches == {<<Row0>>, <<RowPd>>, <<Row0, RowDesc>>, <<RowNoDesc>>}

IdleApp == [pc |-> "idle", df |-> <<>>, saved |-> <<>>, wrote |-> 0, again |-> FALSE]

\* save_combined_csv_to_db(combined_df).  saved is the frame of the last call that
\* stored all its rows; again says that this call's frame is that frame.
AppSave(df, fault) ==
    /\ Len(accountTransaction) + Len(df) <= MaxStore
    /\ LET vd1 == AppVendors(vendor, df)
           ok == fault = "none"
       IN /\ vendor' = IF fault = "query" THEN vendor ELSE vd1
          /\ accountTransaction' = IF ok THEN accountTransaction \o AppRecords(vd1, df)
                                   ELSE accountTransaction
          /\ app' = [pc |-> "done", df |-> df,
                     saved |-> IF ok THEN df ELSE app.saved,
                     wrote |-> IF ok THEN Len(df) ELSE 0,
                     again |-> app.saved = df]
    /\ UNCHANGED <<user_id, run, last_call, procs, hm, rd, up>>

(***************************************************************************)
(* Two activations of main.store_transaction_in_db, each with a session of *)
(* its own, running at the same time                                       *)
(***************************************************************************)
Procs == {1, 2}

ConcRows == {Row0, RowPd}

IdleProc == [pc |-> "idle", row |-> Row0, result |-> "none"]

\* store_transaction_in_db(df_row) is entered
ConcBegin(p, row) ==
    /\ procs[p].pc = "idle"
    /\ Len(accountTransaction) < MaxStore
    /\ procs' = [procs EXCEPT ![p] = [pc |-> "check", row |-> row, result |-> "none"]]
    /\ UNCHANGED <<accountTransaction, vendor, user_id, run, last_call, app, hm, rd, up>>

\* existing_transaction = session.query(...).first(); return False when there is one
ConcCheck(p) ==
    /\ procs[p].pc = "check"
    /\ procs' = IF ExistingTransaction(accountTransaction, procs[p].row)
                THEN [procs EXCEPT ![p] = [@ EXCEPT !.pc = "idle", !.result = "duplicate"]]
                ELSE [procs EXCEPT ![p] = [@ EXCEPT !.pc = "write"]]
    /\ UNCHANGED <<accountTransaction, vendor, user_id, run, last_call, app, hm, rd, up>>

\* vendor find-or-create, session.add(transaction), session.commit()
ConcWrite(p) ==
    /\ procs[p].pc = "write"
    /\ \E fault \in {"none", "write"} :
         LET w == WriteThrough(accountTransaction, vendor, procs[p].row, 1, fault) IN
         /\ accountTransaction' = w.tx
         /\ vendor' = w.vd
         /\ procs' = [procs EXCEPT ![p] = [@ EXCEPT !.pc = "idle", !.result = w.result]]
    /\ UNCHANGED <<user_id, run, last_call, app, hm, rd, up>>

(***************************************************************************)
(* main.mapper, the header row                                             *)
(*                                                                         *)
(* A column name is the sequence of its words and separators: "amount_c"   *)
(* is <<"amount", "_", "c">>, "Credit Amt" is <<"Credit", " ", "Amt">>,    *)
(* the empty string is << >>.  "x in col" for a word x is that x is one of *)
(* the words of col.                                                       *)
(***************************************************************************)
amount_c == <<"amount", "_", "c">>

amount_d == <<"amount", "_", "d">>

\* reverse_mapping.get(col) when col is no key
None == <<"<None>">>

\* The header cells of the files, as pd.read_csv names the columns (no two alike).
HAmount == <<"Amount">>

HAmt == <<"AMT">>

HCredit == <<"Credit">>

HCreditAmt == <<"Credit", " ", "Amt">>

HDebit == <<"Debit">>

HBoth == <<"Credit", "/", "Debit">>

HMemo == <<"Memo">>

HMEMO == <<"MEMO">>

HAmount1 == <<"amount", "_", "1">>

HAmountC == <<"amount", "_", "c">>

RawHeaders ==
    {HAmount, HAmt, HCredit, HCreditAmt, HDebit, HBoth, HMemo, HMEMO, HAmount1, HAmountC}

MaxCols == 3

HeaderRows ==
    {h \in UNION {[1..n -> RawHeaders] : n \in 1..MaxCols} :
        \A i, j \in DOMAIN h : i # j => h[i] # h[j]}

\* header_mapping.json: canonical name -> alternate spellings, in the order of the file.
TableBank ==
    <<[std |-> <<"amount">>, alts |-> <<HAmount, HAmt>>],
      [std |-> amount_c, alts |-> <<HCredit>>],
      [std |-> amount_d, alts |-> <<HDebit>>],
      [std |-> <<"balance">>, alts |-> <<HBoth>>]>>

\* "Amt" of amount and "AMT" of balance normalize to the same string.
TableAmbiguous ==
    <<[std |-> <<"amount">>, alts |-> <<HAmount, <<"Amt">>>>],
      [std |-> <<"balance">>, alts |-> <<HAmt>>]>>

\* load_header_mapping returns {} when the file is missing.
TableEmpty == <<>>

Tables == {TableBank, TableAmbiguous, TableEmpty}

\* str.lower() on one word
Lower(t) ==
    CASE t = "Amount" -> "amount"
      [] t \in {"AMT", "Amt"} -> "amt"
      [] t = "Credit" -> "credit"
      [] t = "Debit" -> "debit"
      [] t \in {"Memo", "MEMO"} -> "memo"
      [] OTHER -> t

\* str(col).lower().replace(" ", "")
Normalize(name) ==
    SelectSeq([i \in DOMAIN name |-> Lower(name[i])], LAMBDA t : t # " ")

\* for alt in alt_names: reverse_mapping[alt_norm] = std_name  (a later entry overwrites)
RECURSIVE AddAlts(_, _, _)
AddAlts(m, std, alts) ==
    IF alts = <<>> THEN m
    ELSE AddAlts((Normalize(Head(alts)) :> std) @@ m, std, Tail(alts))

\* for std_name, alt_names in header_mapping.items()
RECURSIVE BuildReverse(_, _)
BuildReverse(m, table) ==
    IF table = <<>> THEN m
    ELSE BuildReverse(AddAlts(m, Head(table).std, Head(table).alts), Tail(table))

reverse_mapping(table) == BuildReverse(<<>>, table)

\* reverse_mapping.get(col)
Get(m, col) == IF col \in DOMAIN m THEN m[col] ELSE None

\* "if std_col:" -- None and the empty string are false
Truthy(std_col) == std_col # None /\ std_col # <<>>

\* word in col
Contains(col, word) == \E i \in DOMAIN col : col[i] = word

\* A fallback that forgets the 'and "debit" not in col' / 'and "credit" not in col' parts.
FallbackNameNoExclusion(col) ==
    IF Contains(col, "credit") THEN amount_c
    ELSE IF Contains(col, "debit") THEN amount_d
    ELSE col

\* Fallback: if not mapped, check for credit/debit keywords.
FallbackName(col) ==
    IF Contains(col, "credit") /\ ~Contains(col, "debit") THEN amount_c
    ELSE IF Contains(col, "debit") /\ ~Contains(col, "credit") THEN amount_d
    ELSE col

\* f"{name}_{suffix}"
Suffixed(name, suffix) == name \o <<"_", ToString(suffix)>>

\* while f"{name}_{suffix}" in seen_columns: suffix += 1
RECURSIVE FirstFree(_, _, _)
FirstFree(name, seen, suffix) ==
    IF Suffixed(name, suffix) \in seen THEN FirstFree(name, seen, suffix + 1)
    ELSE Suffixed(name, suffix)

\* A uniqueness step without the while loop: the suffix is always 1.
UniqueNameNoLoop(name, seen) == IF name \in seen THEN Suffixed(name, 1) ELSE name

\* "If this standard column name already exists, append a suffix" / "Make sure it's unique"
UniqueName(name, seen) == IF name \in seen THEN FirstFree(name, seen, 1) ELSE name

\* for col in normalized_columns: ...; new_columns.append(...); seen_columns.add(...)
RECURSIVE MapColumns(_, _, _, _)
MapColumns(cols, rev, new_columns, seen_columns) ==
    IF cols = <<>>
    THEN [new_columns |-> new_columns, seen_columns |-> seen_columns]
    ELSE LET col == Head(cols)
             std_col == Get(rev, col)
             name == UniqueName(IF Truthy(std_col) THEN std_col ELSE FallbackName(col),
                                seen_columns)
         IN MapColumns(Tail(cols), rev, Append(new_columns, name), seen_columns \cup {name})

\* The names an earlier call assigned, were seen_columns not a local of the call.
seen_columns_kept == hm.seen_columns

\* seen_columns = set()
seen_columns_new == {}

\* mapper, from the header row of the file to df.columns = new_columns
mapper(columns, table) ==
    MapColumns([i \in DOMAIN columns |-> Normalize(columns[i])], reverse_mapping(table),
               <<>>, seen_columns_new)

\* A file with header row columns is about to be mapped under header_mapping table.
HmStart(columns, table) ==
    [pc |-> "start", columns |-> columns, table |-> table, new_columns |-> <<>>,
     seen_columns |-> {}, first |-> <<>>]

\* df = mapper(csv_file_path): the file is mapped
MapperCall ==
    /\ hm.pc = "start"
    /\ LET m == mapper(hm.columns, hm.table) IN
       hm' = [hm EXCEPT !.pc = "mapped", !.new_columns = m.new_columns,
                        !.seen_columns = m.seen_columns, !.first = m.new_columns]
    /\ UNCHANGED <<accountTransaction, vendor, user_id, run, last_call, procs, app, rd, up>>

\* the same file is mapped once more (it is uploaded again, or read by a second run)
MapperAgain ==
    /\ hm.pc = "mapped"
    /\ LET m == mapper(hm.columns, hm.table) IN
       hm' = [hm EXCEPT !.pc = "again", !.new_columns = m.new_columns,
                        !.seen_columns = m.seen_columns]
    /\ UNCHANGED <<accountTransaction, vendor, user_id, run, last_call, procs, app, rd, up>>

(***************************************************************************)
(* main.csv_reader, the cells                                              *)
(*                                                                         *)
(* A cell is [t, v]: t = "float" is the number v, "nan" is NaN/None,       *)
(* "numstr" is the text of the number v, "str$" is the text "$" followed   *)
(* by the number v, "str" is a text that is no number and no date, "date"  *)
(* is a text that is the date v in one of the known formats; "Credit",     *)
(* "Debit" and "No Category Mentioned" are these texts.  A description or  *)
(* vendor name is a cell [t, v, s] with t = "text" and the text s.         *)
(***************************************************************************)
Cell(t, v) == [t |-> t, v |-> v]

Nan == Cell("nan", 0)

Float(n) == Cell("float", n)

\* The cells of the file as written: empty, a number, "$" and a number, a word, a date.
REmpty == Cell("empty", 0)

RNum(n) == Cell("num", n)

RDollar(n) == Cell("str$", n)

RText == Cell("str", 0)

RDate(d) == Cell("date", d)

\* a date the formats parse that pd.Timestamp cannot hold, such as 9999-12-31
RFarDate == Cell("fardate", 0)

\* A text cell: the text s as the sequence of its words and separators.
Text(s) == [t |-> "text", v |-> 0, s |-> s]

RDesc(s) == Text(s)

DAcme == <<"ACME", " ", "store", " ", "12">>

DNetflix == <<"Netflix", ",", " ", "monthly">>

DXY == <<"x", ",", " ", "y">>

\* The mapped columns of the files and the cells their rows are drawn from.
ShBoth == {"posting_date", "amount_c", "amount_d"}

ShBothAmount == {"transaction_date", "amount_c", "amount_d", "amount"}

ShCredit == {"posting_date", "amount_c"}

ShDebit == {"posting_date", "amount_d"}

ShAmount == {"transaction_date", "posting_date", "amount"}

\* "Posting Date", "Description", "Debit", "Credit"
ShExample == {"posting_date", "description", "amount_d", "amount_c"}

\* a file without a date column
ShNoDate == {"description", "amount"}

\* a file that has a type column of its own
ShTyped == {"posting_date", "amount", "type"}

Shapes ==
    {ShBoth, ShBothAmount, ShCredit, ShDebit, ShAmount, ShExample, ShNoDate, ShTyped}

RawCells(shape, col) ==
    CASE col \in {"posting_date", "transaction_date"} ->
            IF shape = ShBothAmount THEN {RDate(1)}
            ELSE IF shape = ShAmount THEN {RDate(1), RText, RFarDate}
            ELSE {RDate(1), RText}
      [] col = "type" -> {RText}
      [] col = "description" ->
            IF shape = ShExample THEN {REmpty, RDesc(DAcme), RDesc(DNetflix)}
            ELSE {REmpty, RDesc(DXY)}
      [] col = "amount_c" ->
            IF shape \in {ShBothAmount, ShExample} THEN {REmpty, RNum(5)}
            ELSE {REmpty, RNum(5), RDollar(5), RText}
      [] col = "amount_d" ->
            IF shape = ShBothAmount THEN {REmpty, RNum(3)}
            ELSE IF shape = ShExample THEN {REmpty, RNum(5)}
            ELSE {REmpty, RNum(5), RNum(3), RText}
      [] OTHER ->
            IF shape = ShBothAmount THEN {RNum(7), RText}
            ELSE {REmpty, RNum(0), RNum(7), RText}

RawRows(shape) ==
    {r \in [shape -> UNION {RawCells(shape, c) : c \in shape}] :
        \A c \in shape : r[c] \in RawCells(shape, c)}

MaxRows == 2

RawFiles(shape) == UNION {[1..n -> RawRows(shape)] : n \in 1..MaxRows}

\* pd.read_csv: a column of numbers and empty cells is a float column; in any other
\* column the numbers stay texts.  An empty cell is NaN in both.
ReadCell(rows, col, i) ==
    LET numeric == \A k \in DOMAIN rows : rows[k][col].t \in {"num", "empty"}
        c == rows[i][col]
    IN CASE c.t = "empty" -> Nan
         [] c.t = "num" -> IF numeric THEN Float(c.v) ELSE Cell("numstr", c.v)
         [] OTHER -> c

\* the frame of pd.read_csv: each row with its index label
read_csv(rows) ==
    [i \in DOMAIN rows |->
        [index |-> i, cells |-> [col \in DOMAIN rows[i] |-> ReadCell(rows, col, i)]]]

\* process_string: a float and "" pass, a text loses a leading '$'
process_string(c) == IF c.t = "str$" THEN Cell("numstr", c.v) ELSE c

\* pd.to_numeric(..., errors='coerce')
to_numeric(c) ==
    CASE c.t = "float" -> c
      [] c.t = "numstr" -> Float(c.v)
      [] OTHER -> Nan

\* df[col] = pd.to_numeric(df[col].apply(process_string), errors='coerce')
Coerce(df, col) ==
    [i \in DOMAIN df |->
        [df[i] EXCEPT !.cells = [@ EXCEPT ![col] = to_numeric(process_string(@))]]]

\* mapper, after the columns are renamed: amount_c and amount_d become numbers
mapper_numeric(df, cols) ==
    LET df1 == IF "amount_c" \in cols THEN Coerce(df, "amount_c") ELSE df
    IN IF "amount_d" \in cols THEN Coerce(df1, "amount_d") ELSE df1

\* convert_to_yyyy_mm_dd: the date, or None for an empty or unparsable cell
convert_to_yyyy_mm_dd(c) == IF c.t \in {"date", "fardate"} THEN c ELSE Nan

\* df[col] = values: the column is added or replaced, values[i] going to row i
SetColumn(df, col, values) ==
    [i \in DOMAIN df |-> [df[i] EXCEPT !.cells = (col :> values[i]) @@ @]]

\* A date conversion that forgets df.dropna(subset=[col]).
ConvertDatesNoDrop(df, col) ==
    SetColumn(df, col, [i \in DOMAIN df |-> convert_to_yyyy_mm_dd(df[i].cells[col])])

\* df[col] = df[col].apply(convert_to_yyyy_mm_dd); df = df.dropna(subset=[col])
ConvertDates(df, col) ==
    LET conv(cells) == convert_to_yyyy_mm_dd(cells[col]) IN
    SelectSeq(SetColumn(df, col, [i \in DOMAIN df |-> conv(df[i].cells)]), LAMBDA row : row.cells[col] # Nan)

\* .fillna(0)
fillna0(c) == IF c = Nan THEN Float(0) ELSE c

\* An amount that forgets fillna(0): NaN on either side makes the difference NaN.
UnifiedAmountNoFill(c, d) == IF c = Nan \/ d = Nan THEN Nan ELSE Float(c.v - d.v)

\* df["amount_c"].fillna(0) - df["amount_d"].fillna(0)
UnifiedAmount(c, d) == Float(fillna0(c).v - fillna0(d).v)

\* A debit side that keeps its sign.
NegatedNoSign(c) == c

\* -df["amount_d"]
Negated(c) == IF c = Nan THEN Nan ELSE Float(0 - c.v)

\* "Credit" if x >= 0 else "Debit"; comparing a text with 0 raises TypeError
TypeOf(c) ==
    CASE c.t = "float" -> IF c.v >= 0 THEN Cell("Credit", 0) ELSE Cell("Debit", 0)
      [] c = Nan -> Cell("Debit", 0)
      [] OTHER -> Cell("TypeError", 0)

\* The frame csv_reader works on: its rows, its columns, and whether a statement
\* raised.
Frame(df, columns) == [pc |-> "done", df |-> df, columns |-> columns]

\* csv_reader raised: there is no frame
Raised == [pc |-> "raised", df |-> <<>>, columns |-> {}]

\* df[col] = pd.to_datetime(df[col]) raises OutOfBoundsDatetime
ToDatetimeRaises(df, col) == \E i \in DOMAIN df : df[i].cells[col].t = "fardate"

\* if "transaction_date" not in df.columns and "posting_date" in df.columns:
\*     df["transaction_date"] = df["posting_date"]
CopyPostingDate(f) ==
    IF "transaction_date" \notin f.columns /\ "posting_date" \in f.columns
    THEN [f EXCEPT !.df = SetColumn(f.df, "transaction_date",
                                    [i \in DOMAIN f.df |-> f.df[i].cells["posting_date"]]),
                   !.columns = @ \cup {"transaction_date"}]
    ELSE f

\* for col in ["posting_date", "transaction_date"]: if col in df.columns: ...
ConvertDateColumns(f) ==
    LET df1 == IF "posting_date" \in f.columns THEN ConvertDates(f.df, "posting_date")
               ELSE f.df
        df2 == IF "transaction_date" \in f.columns THEN ConvertDates(df1, "transaction_date")
               ELSE df1
    IN IF \/ "posting_date" \in f.columns /\ ToDatetimeRaises(df1, "posting_date")
          \/ "transaction_date" \in f.columns /\ ToDatetimeRaises(df2, "transaction_date")
       THEN Raised
       ELSE [f EXCEPT !.df = df2]

\* the unified amount column, from amount_c and amount_d where the frame has them
UnifyAmount(f) ==
    LET both(cells) == UnifiedAmount(cells["amount_c"], cells["amount_d"])
        credit(cells) == cells["amount_c"]
        debit(cells) == Negated(cells["amount_d"])
        amount(cells) ==
            IF "amount_c" \in f.columns /\ "amount_d" \in f.columns THEN both(cells)
            ELSE IF "amount_c" \in f.columns THEN credit(cells)
            ELSE debit(cells)
    IN IF "amount_c" \in f.columns \/ "amount_d" \in f.columns
       THEN [f EXCEPT !.df = SetColumn(f.df, "amount",
                                       [i \in DOMAIN f.df |-> amount(f.df[i].cells)]),
                      !.columns = @ \cup {"amount"}]
       ELSE f

\* if "type" not in df.columns and "amount" in df.columns: df["type"] = ...
AddType(f) ==
    LET types == [i \in DOMAIN f.df |-> TypeOf(f.df[i].cells["amount"])] IN
    IF "type" \notin f.columns /\ "amount" \in f.columns
    THEN IF \E i \in DOMAIN f.df : types[i].t = "TypeError"
         THEN Raised
         ELSE [f EXCEPT !.df = SetColumn(f.df, "type", types),
                        !.columns = @ \cup {"type"}]
    ELSE f

\* if "category" not in df.columns: df["category"] = "No Category Mentioned"
AddCategory(f) ==
    IF f.pc = "done" /\ "category" \notin f.columns
    THEN [f EXCEPT !.df = SetColumn(f.df, "category",
                              [i \in DOMAIN f.df |-> Cell("No Category Mentioned", 0)]),
                   !.columns = @ \cup {"category"}]
    ELSE f

\* key: the words and the separator the vendor pattern ends a vendor at.  (" in "
\* is a key too; no text of the model holds the word "in".)
KeyTokens == {"DES:", "from", "transfer", "Deposit", "ATM", ","}

\* the tokens that are not words: [\W_]+
Separators == {" ", ",", "-"}

IsWord(tok) == tok \notin Separators

\* len() of a token
TokLen(tok) ==
    CASE tok \in {" ", ",", "-", "x", "y"} -> 1
      [] tok = "12" -> 2
      [] tok = "ACME" -> 4
      [] tok = "store" -> 5
      [] OTHER -> 7

\* len() of a text
RECURSIVE StrLen(_)
StrLen(s) == IF s = <<>> THEN 0 ELSE TokLen(Head(s)) + StrLen(Tail(s))

\* str.strip()
RECURSIVE Strip(_)
Strip(s) ==
    IF s = <<>> THEN s
    ELSE IF Head(s) = " " THEN Strip(Tail(s))
    ELSE IF s[Len(s)] = " " THEN Strip(SubSeq(s, 1, Len(s) - 1))
    ELSE s

\* pattern.findall(strings): the first match's group, from the first word character
\* that has a key after it up to the last key (the group is greedy); <<>> if none.
\* The result is a sequence of at most one text.
FindAll(s) ==
    LET starts == {p \in DOMAIN s : IsWord(s[p]) /\ \E k \in DOMAIN s : k > p /\ s[k] \in KeyTokens}
        p == CHOOSE q \in starts : \A r \in starts : q <= r
        k == CHOOSE q \in DOMAIN s : s[q] \in KeyTokens /\ \A r \in DOMAIN s : s[r] \in KeyTokens => r <= q
    IN IF starts = {} THEN <<>> ELSE <<SubSeq(s, p, k - 1)>>

\* re.split(r'[\W_]+', strings)[0]: the text before the first separator
FirstWord(s) == IF s # <<>> /\ IsWord(s[1]) THEN <<s[1]>> ELSE <<>>

\* strings.split(): the runs of tokens between spaces
RECURSIVE Split(_, _)
Split(s, word) ==
    IF s = <<>> THEN (IF word = <<>> THEN <<>> ELSE <<word>>)
    ELSE IF Head(s) = " " THEN (IF word = <<>> THEN <<>> ELSE <<word>>) \o Split(Tail(s), <<>>)
    ELSE Split(Tail(s), Append(word, Head(s)))

\* strip_vendor of a description cell.  The texts of the model are shorter than 30
\* characters, so strings[:30] leaves them as they are.
strip_vendor(c) ==
    IF c.t = "nan" THEN Text(<<"Unknown">>)
    ELSE LET strings == c.s
             matches == FindAll(strings)
             vendor_name == IF matches # <<>> THEN Strip(matches[1]) ELSE FirstWord(strings)
             words == Split(strings, <<>>)
         IN Text(IF StrLen(vendor_name) < 5
                 THEN (IF Len(words) > 1 THEN words[1] \o <<" ">> \o words[2] ELSE strings)
                 ELSE vendor_name)

\* if "description" in df.columns:
\*     df["vendorName"] = df["description"].apply(lambda x: strip_vendor(x) if pd.notna(x) else "")
AddVendorName(f) ==
    IF f.pc = "done" /\ "description" \in f.columns
    THEN [f EXCEPT !.df = SetColumn(f.df, "vendorName",
                              [i \in DOMAIN f.df |->
                                  IF f.df[i].cells["description"] # Nan
                                  THEN strip_vendor(f.df[i].cells["description"])
                                  ELSE Text(<<>>)]),
                   !.columns = @ \cup {"vendorName"}]
    ELSE f

\* csv_reader from "df = mapper(...)" to "return df", statement after statement:
\* the frame and its columns, or that the call raised
csv_reader(rows, shape) ==
    LET mapped == {Frame(mapper_numeric(read_csv(rows), shape), shape)}
        copied == {CopyPostingDate(f) : f \in mapped}
        dated == {ConvertDateColumns(f) : f \in copied}
        unified == {UnifyAmount(f) : f \in dated}
        typed == {AddType(f) : f \in unified}
        categorised == {AddCategory(f) : f \in typed}
        named == {AddVendorName(f) : f \in categorised}
    IN CHOOSE f \in named : TRUE

\* A file with mapped columns shape and rows rows is about to be read.
RdStart(shape, rows) ==
    [pc |-> "start", shape |-> shape, rows |-> rows, df |-> <<>>, columns |-> {},
     combined_df |-> <<>>]

\* df = csv_reader(file)
CsvReader ==
    /\ rd.pc = "start"
    /\ LET r == csv_reader(rd.rows, rd.shape) IN
       rd' = [rd EXCEPT !.pc = r.pc, !.df = r.df, !.columns = r.columns]
    /\ UNCHANGED <<accountTransaction, vendor, user_id, run, last_call, procs, app, hm, up>>

\* required_columns: the canonical columns a frame must have to be stored
required_columns ==
    {"transaction_date", "description", "amount", "category", "type", "vendorName",
     "posting_date"}

\* combined_df = pd.concat([combined_df, df], ignore_index=False): the rows of the
\* frame csv_reader returned join the combined output as they are
Concat ==
    /\ rd.pc = "done"
    /\ rd' = [rd EXCEPT !.pc = "combined", !.combined_df = @ \o rd.df]
    /\ UNCHANGED <<accountTransaction, vendor, user_id, run, last_call, procs, app, hm, up>>

(***************************************************************************)
(* streamlit_app.process_csv_files                                         *)
(***************************************************************************)
\* An uploaded file by what main.csv_reader makes of it: it raises, it returns an
\* empty frame, a frame without one of the required columns, or a frame of rows.
Upload(kind, rows) == [kind |-> kind, rows |-> rows]

URaises == Upload("raises", <<>>)

UEmpty == Upload("empty", <<>>)

UMissing == Upload("missing", <<RowNoDesc>>)

U0 == Upload("rows", <<Row0>>)

UTwice == Upload("rows", <<Row0, Row0>>)

UPdDesc == Upload("rows", <<RowPd, RowDesc>>)

\* The lists of files a user uploads.
Uploads ==
    {<<>>, <<URaises>>, <<UEmpty>>, <<UMissing>>, <<U0>>, <<UTwice>>, <<U0, UPdDesc>>,
     <<UPdDesc, URaises>>, <<UEmpty, U0, UMissing>>}

IdleUpload ==
    [pc |-> "idle", files |-> <<>>, next |-> 1, rows |-> <<>>, stats |-> ZeroStats,
     internal_duplicates |-> {}]

\* stats = {...}; os.makedirs(temp_dir, exist_ok=True)
UploadStart(fs) ==
    /\ up.pc \in {"idle", "done"}
    /\ up' = [IdleUpload EXCEPT !.pc = "files", !.files = fs]
    /\ UNCHANGED <<accountTransaction, vendor, user_id, run, last_call, procs, app, hm, rd>>

\* df[df.duplicated(subset=['transaction_date', 'description', 'amount'], keep=False)]
InternalDuplicates(rows) ==
    {rows[i] : i \in {k \in DOMAIN rows :
        \E j \in DOMAIN rows :
            /\ j # k
            /\ rows[j].transaction_date = rows[k].transaction_date
            /\ rows[j].description = rows[k].description
            /\ rows[j].amount = rows[k].amount}}

\* One iteration of "for uploaded_file in uploaded_files" up to the row loop: a file
\* that raises, is empty or lacks a required column is counted in failed.
UploadFile ==
    /\ up.pc = "files"
    /\ up.next <= Len(up.files)
    /\ LET f == up.files[up.next] IN
       up' = IF f.kind = "rows"
             THEN [up EXCEPT !.pc = "rows", !.rows = f.rows,
                             !.internal_duplicates = InternalDuplicates(f.rows)]
             ELSE [up EXCEPT !.next = @ + 1, !.stats.failed = @ + 1]
    /\ UNCHANGED <<accountTransaction, vendor, user_id, run, last_call, procs, app, hm, rd>>

\* stats after one row whose store call returned status result
UploadCount(stats, result) ==
    LET s == [stats EXCEPT !.total = @ + 1] IN
    CASE result = "stored" -> [s EXCEPT !.successful = @ + 1]
      [] result = "duplicate" -> [s EXCEPT !.duplicates = @ + 1]
      [] OTHER -> [s EXCEPT !.failed = @ + 1]

\* one iteration of "for _, row in df.iterrows()"; after the last row the temporary
\* file is removed and the file loop goes on
UploadStoreRow ==
    /\ up.pc = "rows"
    /\ \E fault \in Faults :
         LET row == Head(up.rows)
             r == st_store_transaction_in_db(accountTransaction, vendor, row, user_id, fault)
         IN /\ accountTransaction' = r.tx
            /\ vendor' = r.vd
            /\ up' = [up EXCEPT !.rows = Tail(@), !.stats = UploadCount(@, r.result),
                                !.pc = IF Tail(up.rows) = <<>> THEN "files" ELSE "rows",
                                !.next = IF Tail(up.rows) = <<>> THEN @ + 1 ELSE @]
            /\ last_call' = [op |-> "st", row |-> row, result |-> r.result,
                             before |-> accountTransaction, vendors |-> vendor,
                             user |-> user_id, fault |-> fault]
    /\ UNCHANGED <<user_id, run, procs, app, hm, rd>>

\* return stats
UploadReturn ==
    /\ up.pc = "files"
    /\ up.next > Len(up.files)
    /\ up' = [up EXCEPT !.pc = "done"]
    /\ UNCHANGED <<accountTransaction, vendor, user_id, run, last_call, procs, app, hm, rd>>

(***************************************************************************)
(* streamlit_app.update_transaction                                        *)
(***************************************************************************)
\* updated_data: keys holds the columns the editor changed, the other fields their
\* new values.  amount is set with setattr, vendor_name goes through the vendor table.
Updates(keys, amount, vendor_name) ==
    [keys |-> keys, amount |-> amount, vendor_name |-> vendor_name]

UpdatedData ==
    {Updates({"amount"}, 7, "ACME store"),
     Updates({"vendor_name"}, 5, "NEW vendor"),
     Updates({"amount", "vendor_name"}, 7, "ACME store")}

\* A lookup by transaction_id alone.
FindAnyTransaction(tx, transaction_id, uid) == transaction_id \in DOMAIN tx

\* session.query(AccountTransaction).filter(transaction_id == ..., created_by ==
\* st.session_state["user_id"]).first() is not None; transaction_id is the position
\* of the row in the table
FindOwnTransaction(tx, transaction_id, uid) ==
    /\ transaction_id \in DOMAIN tx
    /\ tx[transaction_id].created_by = uid

\* result: "True" is return True, "False" is return False.  updated_at and updated_by
\* are columns the model does not hold.
update_transaction(tx, vd, transaction_id, updated_data, uid, fault) ==
    IF uid = 0
    THEN [tx |-> tx, vd |-> vd, result |-> "False"]
    ELSE IF fault = "query"
    THEN [tx |-> tx, vd |-> vd, result |-> "False"]
    ELSE IF ~FindOwnTransaction(tx, transaction_id, uid)
    THEN [tx |-> tx, vd |-> vd, result |-> "False"]
    ELSE IF fault = "write"
    THEN [tx |-> tx, vd |-> vd, result |-> "False"]       \* session.rollback()
    ELSE LET v == FindVendor(vd, updated_data.vendor_name)
             named == "vendor_name" \in updated_data.keys
         IN [tx |-> [tx EXCEPT ![transaction_id] =
                        [@ EXCEPT !.amount = IF "amount" \in updated_data.keys
                                             THEN updated_data.amount ELSE @,
                                  !.vendor_id = IF ~named THEN @
                                                ELSE IF v = 0 THEN Len(vd) + 1 ELSE v]],
             vd |-> IF named /\ v = 0 THEN Append(vd, updated_data.vendor_name) ELSE vd,
             result |-> "True"]

\* success = update_transaction(transaction_id, updates), for one edited row
StUpdate(transaction_id, updated_data) ==
    \E fault \in Faults :
        LET r == update_transaction(accountTransaction, vendor, transaction_id, updated_data,
                                    user_id, fault) IN
        /\ accountTransaction' = r.tx
        /\ vendor' = r.vd
        /\ last_call' = [op |-> "update", id |-> transaction_id, data |-> updated_data,
                         result |-> r.result, before |-> accountTransaction,
                         vendors |-> vendor, user |-> user_id, fault |-> fault]
        /\ UNCHANGED <<user_id, run, procs, app, hm, rd, up>>

InitStore ==
    /\ accountTransaction = <<>>
    /\ vendor = <<>>
    /\ user_id = 0
    /\ last_call = NoCall

InitIdle ==
    /\ run = IdleRun
    /\ procs = [p \in Procs |-> IdleProc]
    /\ app = IdleApp
    /\ up = IdleUpload

InitMain == InitStore /\ InitIdle /\ hm = HmStart(<<>>, TableEmpty) /\ rd = RdStart({}, <<>>)

NextMain ==
    \/ \E fs \in Folders : MainStart(fs)
    \/ MainReadFile
    \/ MainCombine
    \/ MainStoreRow
    \/ MainReturn

\* Sequential runs of main.read_all_csv_from_folder on an initially empty store.
SpecMain == InitMain /\ [][NextMain]_vars

NextSt ==
    \/ \E u \in Users : Login(u)
    \/ Logout
    \/ \E row \in StRows : StStoreRow(row)

\* The user-scoped gate of streamlit_app, one call at a time, users logging in and out.
SpecSt == InitMain /\ [][NextSt]_vars

NextApp == \E df \in AppBatches, fault \in Faults : AppSave(df, fault)

\* Repeated saves through app.save_combined_csv_to_db.
SpecApp == InitMain /\ [][NextApp]_vars

NextConc ==
    \/ \E p \in Procs, row \in ConcRows : ConcBegin(p, row)
    \/ \E p \in Procs : ConcCheck(p)
    \/ \E p \in Procs : ConcWrite(p)

\* Two ingestions whose check and write steps interleave.
SpecConc == InitMain /\ [][NextConc]_vars

InitMapper ==
    /\ InitStore
    /\ InitIdle
    /\ hm \in {HmStart(c, t) : c \in HeaderRows, t \in Tables}
    /\ rd = RdStart({}, <<>>)

NextMapper == MapperCall \/ MapperAgain

\* main.mapper on every header row and table, each file mapped twice.
SpecMapper == InitMapper /\ [][NextMapper]_vars

InitReader ==
    /\ InitStore
    /\ InitIdle
    /\ hm = HmStart(<<>>, TableEmpty)
    /\ \E shape \in Shapes : rd \in {RdStart(shape, rows) : rows \in RawFiles(shape)}

NextReader == CsvReader \/ Concat

\* main.csv_reader on every file of the shapes, and its frame joining combined_df.
SpecReader == InitReader /\ [][NextReader]_vars

InitUpload ==
    /\ InitStore
    /\ InitIdle
    /\ hm = HmStart(<<>>, TableEmpty)
    /\ rd = RdStart({}, <<>>)

NextUpload ==
    \/ \E fs \in Uploads : UploadStart(fs)
    \/ UploadFile
    \/ UploadStoreRow
    \/ UploadReturn
    \/ \E u \in Users : Login(u)
    \/ Logout

\* Uploads through streamlit_app.process_csv_files, by any user or by nobody.
SpecUpload == InitUpload /\ [][NextUpload]_vars

\* The rows uploaded while transactions are edited.
EditRows == {Row0}

MaxEdit == 2

\* The row loop of process_csv_files while the table holds fewer than MaxEdit rows.
EditStoreRow(row) ==
    /\ Len(accountTransaction) < MaxEdit
    /\ StStoreRow(row)

NextEdit ==
    \/ \E u \in Users : Login(u)
    \/ Logout
    \/ \E row \in EditRows : EditStoreRow(row)
    \/ \E transaction_id \in 1..(MaxEdit + 1), updated_data \in UpdatedData :
           StUpdate(transaction_id, updated_data)

\* Users of the streamlit application storing rows and editing transactions.
SpecEdit == InitMain /\ [][NextEdit]_vars

(***************************************************************************)
(* Properties of the Deduplication Gate                                    *)
(***************************************************************************)
\* t and row agree on the natural key (transaction_date, posting_date, amount, description)
SameKey(t, row) ==
    /\ t.transaction_date = row.transaction_date
    /\ t.posting_date = row.posting_date
    /\ t.amount = row.amount
    /\ t.description = row.description

\* The folder holds two files of one row each, and the two rows have the same key.
TwoFilesSameKey(fs) ==
    /\ Len(fs) = 2
    /\ \A k \in 1..2 : fs[k].readable /\ Len(fs[k].rows) = 1
    /\ SameKey(fs[1].rows[1], fs[2].rows[1])

C3_ConcurrentAtMostOneCopy ==
    \A row \in ConcRows :
        Cardinality({i \in DOMAIN accountTransaction : SameKey(accountTransaction[i], row)}) <= 1

C5_UserScopedRule ==
    (last_call.op = "st" /\ last_call.result # "error") =>
        ((last_call.result = "duplicate") <=>
            \E i \in DOMAIN last_call.before :
                /\ SameKey(last_call.before[i], last_call.row)
                /\ last_call.before[i].created_by = last_call.user)

(***************************************************************************)
(* Properties of the header mapper                                         *)
(***************************************************************************)
Mapped == hm.pc \in {"mapped", "again"}

\* C6: the column names mapper produces are as many as the header cells and no two
\* of them are equal, whatever the header row and the synonym table.
C6_HeaderUniqueness ==
    Mapped =>
        /\ Len(hm.new_columns) = Len(hm.columns)
        /\ \A i, j \in DOMAIN hm.new_columns : i # j => hm.new_columns[i] # hm.new_columns[j]

\* A header that looks like a suffixed name came first: the third column skips amount_1.
C6_Witness ==
    /\ Mapped
    /\ hm.table = TableBank
    /\ hm.columns = <<HAmount1, HAmount, HAmt>>
    /\ hm.new_columns = <<<<"amount", "_", "1">>, <<"amount">>, <<"amount", "_", "2">>>>

FirstMatch(table, col) ==
    LET hits == {k \in DOMAIN table :
                    \E a \in DOMAIN table[k].alts : Normalize(table[k].alts[a]) = col}
    IN IF hits = {} THEN None
       ELSE table[CHOOSE k \in hits : \A l \in hits : k <= l].std

\* name, or name with a numeric suffix
NameOrSuffixed(out, name, n) == out = name \/ \E k \in 1..n : out = Suffixed(name, k)

\* C8: a header that an alternate of the table normalizes to is mapped to the
\* canonical field that is declared first among the fields with such an alternate.
C8_FirstMatchWins ==
    Mapped =>
        \A i \in DOMAIN hm.columns :
            LET first == FirstMatch(hm.table, Normalize(hm.columns[i])) IN
            first # None => NameOrSuffixed(hm.new_columns[i], first, Len(hm.columns))

\* The name the fallback rule gives the normalized header col under table.
RuleName(table, col) ==
    LET rev == reverse_mapping(table) IN
    IF col \in DOMAIN rev THEN rev[col]
    ELSE IF Contains(col, "credit") /\ ~Contains(col, "debit") THEN amount_c
    ELSE IF Contains(col, "debit") /\ ~Contains(col, "credit") THEN amount_d
    ELSE col

\* C9: a header of the reverse lookup takes its canonical name whatever keywords it
\* holds; any other header takes amount_c when it holds "credit" and not "debit",
\* amount_d when it holds "debit" and not "credit", and its own normalized name
\* otherwise.  The column gets that name, made unique by the collision rule (the
\* smallest unused suffix when an earlier column of the row has the name); a header
\* with both keywords that is not in the lookup is never named amount_c or amount_d.
C9_KeywordFallback ==
    Mapped =>
        \A i \in DOMAIN hm.columns :
            LET col == Normalize(hm.columns[i])
                name == RuleName(hm.table, col)
                earlier == {hm.new_columns[j] : j \in 1..(i - 1)}
                out == hm.new_columns[i]
            IN /\ name \notin earlier => out = name
               /\ name \in earlier =>
                    \E k \in 1..i :
                        /\ out = Suffixed(name, k)
                        /\ out \notin earlier
                        /\ \A l \in 1..(k - 1) : Suffixed(name, l) \in earlier
               /\ (/\ col \notin DOMAIN reverse_mapping(hm.table)
                   /\ Contains(col, "credit")
                   /\ Contains(col, "debit")) => out \notin {amount_c, amount_d}

\* A credit header and a credit-and-debit header outside the lookup; and a
\* credit-and-debit header of the lookup, which takes its canonical name.
C9_Witness ==
    /\ Mapped
    /\ hm.table = TableEmpty
    /\ hm.columns = <<HCreditAmt, HBoth, HDebit>>
    /\ hm.new_columns = <<amount_c, <<"credit", "/", "debit">>, amount_d>>

(***************************************************************************)
(* Properties of the amount reconciliation                                 *)
(***************************************************************************)
\* the number of a cell of a numeric column, NaN counted as 0
OrZero(c) == IF c.t = "float" THEN c.v ELSE 0

\* C10: in the frame csv_reader returns for a file whose mapped columns include both
\* amount_c and amount_d, every row's amount is the number amount_c - amount_d of the
\* row, a NaN on either side counted as 0; amount_c and amount_d are the cells of the
\* file made numeric.
C10_AmountSignLaw ==
    (rd.pc = "done" /\ {"amount_c", "amount_d"} \subseteq rd.shape) =>
        \A i \in DOMAIN rd.df :
            LET cells == rd.df[i].cells
                raw == rd.rows[rd.df[i].index]
            IN /\ \A col \in {"amount_c", "amount_d"} :
                    /\ cells[col].t \in {"float", "nan"}
                    /\ raw[col].t \in {"num", "str$"} => cells[col] = Float(raw[col].v)
                    /\ raw[col].t \in {"empty", "str"} => cells[col] = Nan
               /\ cells["amount"] = Float(OrZero(cells["amount_c"]) - OrZero(cells["amount_d"]))

\* A file with a row that has both sides and a row whose credit side is empty.
C10_Witness ==
    /\ rd.pc = "done"
    /\ rd.shape = ShBoth
    /\ Len(rd.df) = 2
    /\ rd.rows[1]["amount_c"] = RDollar(5) /\ rd.rows[1]["amount_d"] = RNum(3)
    /\ rd.rows[2]["amount_c"] = REmpty /\ rd.rows[2]["amount_d"] = RNum(5)
    /\ rd.df[1].cells["amount"] = Float(2)
    /\ rd.df[2].cells["amount"] = Float(-5)

\* the number the reader makes of a cell of the file in a column it coerces:
\* a number, also behind "$", or NaN for an empty cell or a word
Numeric(raw) == IF raw.t \in {"num", "str$"} THEN Float(raw.v) ELSE Nan

\* C11: in the frame csv_reader returns for a file with only one of amount_c and
\* amount_d, every row's amount is the number of amount_c, or the number of amount_d
\* negated (NaN where the cell holds no number); and with both columns a row with a
\* positive debit and an empty credit has the negated debit as amount and type Debit.
C11_SingleSidedAmount ==
    rd.pc = "done" =>
        \A i \in DOMAIN rd.df :
            LET cells == rd.df[i].cells
                raw == rd.rows[rd.df[i].index]
                hasC == "amount_c" \in rd.shape
                hasD == "amount_d" \in rd.shape
            IN /\ (hasC /\ ~hasD) => cells["amount"] = Numeric(raw["amount_c"])
               /\ (hasD /\ ~hasC) =>
                    cells["amount"] = IF Numeric(raw["amount_d"]) = Nan THEN Nan
                                      ELSE Float(0 - raw["amount_d"].v)
               /\ (hasC /\ hasD /\ raw["amount_c"] = REmpty /\ raw["amount_d"].t = "num"
                        /\ raw["amount_d"].v > 0) =>
                    /\ cells["amount"] = Float(0 - raw["amount_d"].v)
                    /\ cells["type"] = Cell("Debit", 0)

\* A file with a debit column only: 5 becomes -5 and 3 becomes -3.
C11_Witness ==
    /\ rd.pc = "done"
    /\ rd.shape = ShDebit
    /\ Len(rd.df) = 2
    /\ rd.rows[1]["amount_d"] = RNum(5) /\ rd.df[1].cells["amount"] = Float(-5)
    /\ rd.rows[2]["amount_d"] = RNum(3) /\ rd.df[2].cells["amount"] = Float(-3)
    /\ rd.df[1].cells["type"] = Cell("Debit", 0)

(***************************************************************************)
(* Properties of the rows csv_reader keeps                                 *)
(***************************************************************************)
\* C12: no row of the combined output has an amount that is zero, NaN or empty.
C12_NoZeroAmount ==
    rd.pc = "combined" =>
        \A i \in DOMAIN rd.combined_df :
            LET cells == rd.combined_df[i].cells IN
            /\ "amount" \in DOMAIN cells
            /\ cells["amount"].t = "float"
            /\ cells["amount"].v # 0

\* the columns of a file of the shape that carry the amount, and its date columns
AmountCols(shape) ==
    IF shape \cap {"amount_c", "amount_d"} # {} THEN shape \cap {"amount_c", "amount_d"}
    ELSE shape \cap {"amount"}

DateCols(shape) == shape \cap {"posting_date", "transaction_date"}

\* a row of the file with an amount cell that is a word, such as "abc"
Uncoercible(raw, shape) == \E col \in AmountCols(shape) : raw[col].t = "str"

\* a row of the file whose date cells are all dates
DatesParse(raw, shape) == \A col \in DateCols(shape) : raw[col].t \in {"date", "fardate"}

\* the rows of the file that are in the frame csv_reader returned
Kept == {rd.df[i].index : i \in DOMAIN rd.df}

\* C13: when a file has a row whose amount cannot be coerced to a number, csv_reader
\* still returns (the file succeeds), the row is absent from its frame and the other
\* rows of the file (those with dates that parse) are in it.
C13_UncoercibleAmountIsRowLevel ==
    (rd.pc \in {"done", "raised"} /\ \E i \in DOMAIN rd.rows : Uncoercible(rd.rows[i], rd.shape)) =>
        /\ rd.pc = "done"
        /\ \A i \in DOMAIN rd.rows :
              i \in Kept <=> (~Uncoercible(rd.rows[i], rd.shape) /\ DatesParse(rd.rows[i], rd.shape))

\* C14: csv_reader drops exactly the rows with a date cell that does not parse: the
\* frame it returns holds every row of the file whose date cells are dates and no
\* other, no date cell of the frame is null, and when the call raises it is for a
\* word in the amount column or for a date that did parse, never for one that did not.
C14_UnparsableDateIsRowLevel ==
    /\ rd.pc = "done" =>
          /\ Kept = {i \in DOMAIN rd.rows : DatesParse(rd.rows[i], rd.shape)}
          /\ \A i \in DOMAIN rd.df :
                \A col \in rd.columns \cap {"posting_date", "transaction_date"} :
                    rd.df[i].cells[col].t = "date"
    /\ rd.pc = "raised" =>
          \/ /\ "amount" \in rd.shape
             /\ \E i \in DOMAIN rd.rows : rd.rows[i]["amount"].t = "str"
          \/ \E i \in DOMAIN rd.rows :
                \E col \in DateCols(rd.shape) : rd.rows[i][col] = RFarDate

\* A file whose first row has a word for a date and whose second row has a date.
C14_Witness ==
    /\ rd.pc = "done"
    /\ rd.shape = ShCredit
    /\ Len(rd.rows) = 2
    /\ rd.rows[1]["posting_date"] = RText
    /\ rd.rows[2]["posting_date"] = RDate(1)
    /\ Kept = {2}

\* C15: every row of the frame csv_reader returns that has an amount has a
\* transaction_date that is not null, and it is the row's posting_date when the file
\* has a posting_date column and no transaction_date column.
C15_TransactionDatePopulated ==
    rd.pc = "done" =>
        \A i \in DOMAIN rd.df :
            LET cells == rd.df[i].cells IN
            ("amount" \in DOMAIN cells /\ cells["amount"] # Nan) =>
                /\ "transaction_date" \in DOMAIN cells
                /\ cells["transaction_date"].t = "date"
                /\ ("transaction_date" \notin rd.shape /\ "posting_date" \in rd.shape) =>
                        cells["transaction_date"] = cells["posting_date"]

\* C16: in the frame csv_reader returns for a file without a type column every row's
\* type is Credit if its amount >= 0 and Debit otherwise, so that type is Debit
\* exactly for the negative amounts; the type cells of a file with a type column are
\* left as they are.
C16_TypeDerivation ==
    rd.pc = "done" =>
        \A i \in DOMAIN rd.df :
            LET cells == rd.df[i].cells
                raw == rd.rows[rd.df[i].index]
                amount == cells["amount"]
            IN /\ "type" \notin rd.shape =>
                    /\ cells["type"] = IF amount.t = "float" /\ amount.v >= 0
                                       THEN Cell("Credit", 0) ELSE Cell("Debit", 0)
                    /\ cells["type"] = Cell("Debit", 0) <=> (amount.t = "float" /\ amount.v < 0)
               /\ "type" \in rd.shape => cells["type"] = raw["type"]

(***************************************************************************)
(* Properties of the vendor name                                           *)
(***************************************************************************)
\* C17: every row of the frame csv_reader returns for a file with a description
\* column has a vendorName that is a non-empty text, and it is "Unknown" when the
\* row's description is missing.
C17_VendorNonEmpty ==
    (rd.pc = "done" /\ "description" \in rd.shape) =>
        \A i \in DOMAIN rd.df :
            LET cells == rd.df[i].cells IN
            /\ "vendorName" \in DOMAIN cells
            /\ cells["vendorName"].t = "text"
            /\ cells["vendorName"].s # <<>>
            /\ cells["description"] = Nan => cells["vendorName"] = Text(<<"Unknown">>)

(***************************************************************************)
(* Properties of a run of read_all_csv_from_folder                         *)
(***************************************************************************)
\* C18: whatever fails while a file is handled (csv_reader, or a move of the file),
\* read_all_csv_from_folder goes on to the remaining files and returns its
\* statistics: it never ends with an exception, and once the file loop is over every
\* file of the list has been attempted.
C18_BadFileNeverAborts ==
    /\ run.pc # "aborted"
    /\ run.pc \in {"rows", "done"} => Len(run.moved) = Len(run.files)

\* C19: when a run has ended, every file of the list has been moved to exactly one of
\* already_processed and not_processed, a file csv_reader rejected to not_processed
\* and no such file to already_processed; none is left in the input folder.
C19_ExactlyOneDestination ==
    run.pc \in {"done", "aborted"} =>
        /\ Len(run.moved) = Len(run.files)
        /\ \A i \in DOMAIN run.moved :
              /\ run.moved[i] \in {"already_processed", "not_processed"}
              /\ run.moved[i] = "already_processed" => run.files[i].readable

\* C20: in the row loop every row of the combined batch is passed to the gate once,
\* in order, whatever the calls before it did: a call that raised is counted once in
\* failed, its row is not passed again, and the loop goes on with the next row.
C20_StoreFailureIsolated ==
    (run.pc \in {"rows", "done"} /\ run.exported) =>
        LET n == Len(run.results) IN
        /\ n <= Len(run.combined_df)
        /\ run.rows = SubSeq(run.combined_df, n + 1, Len(run.combined_df))
        /\ run.transaction_stats.total = n
        /\ run.transaction_stats.failed =
              Cardinality({i \in 1..n : run.results[i] = "raised"})
        /\ run.pc = "done" => n = Len(run.combined_df)

\* The store failed on the first row of a file and took the second.
C20_Witness ==
    /\ run.pc = "done"
    /\ run.files = <<FTdAmt>>
    /\ run.results = <<"raised", "stored">>
    /\ run.transaction_stats = [total |-> 2, duplicates |-> 0, successful |-> 1, failed |-> 1]
    /\ \E i \in DOMAIN accountTransaction : SameKey(accountTransaction[i], RowAmt)

\* the number of files of the run that were moved to not_processed
FailedFiles == Cardinality({i \in DOMAIN run.moved : run.moved[i] = "not_processed"})

\* the number of rows of the run whose store call raised
FailedRows == Cardinality({i \in DOMAIN run.results : run.results[i] = "raised"})

\* C21: the statistics a run returns reflect every failure of the run: the failed
\* counter accounts for each file that was routed to not_processed and for each row
\* that failed to persist.
C21_FailuresInReturnedStats ==
    run.pc = "done" => run.transaction_stats.failed >= FailedFiles + FailedRows

\* C22: every run that has handled its files has written the combined export, also
\* when no file yielded a row.
C22_ExportInEveryRun ==
    run.pc \in {"rows", "done"} => run.exported

\* the rows of the batch the gate accepted, in the order of the batch
RECURSIVE Accepted(_, _)
Accepted(rows, results) ==
    IF rows = <<>> \/ results = <<>> THEN <<>>
    ELSE (IF Head(results) = "stored" THEN <<Head(rows)>> ELSE <<>>)
         \o Accepted(Tail(rows), Tail(results))

\* C23: the combined export of a run that has ended holds the rows the gate accepted
\* in that run and no other row.
C23_ExportHoldsAcceptedRows ==
    (run.pc = "done" /\ run.exported) =>
        run.output_file = Accepted(run.combined_df, run.results)

(***************************************************************************)
(* Properties of the combined batch                                        *)
(***************************************************************************)
\* C24: every row of the combined output has the same fixed set of columns, the
\* canonical columns, whatever file was processed; a canonical column the file does
\* not have is present with an empty value.  (Whatever the fixed set, two files with
\* different columns refute it; the order of the columns is not part of the model.)
C24_StableSchema ==
    rd.pc = "combined" =>
        \A i \in DOMAIN rd.combined_df :
            DOMAIN rd.combined_df[i].cells = required_columns

\* C25: two rows of one batch with the same natural key are left to the caller: when
\* the gate accepted the first of them in this run, the run does not itself discard
\* the second as a Duplicate.
C25_WithinBatchNotAutoResolved ==
    run.pc = "done" =>
        \A i, j \in DOMAIN run.results :
            (i < j /\ SameKey(run.combined_df[i], run.combined_df[j])
                   /\ run.results[i] = "stored") =>
                run.results[j] # "duplicate"

\* the rows of the files that were moved to already_processed, in the order of the files
RECURSIVE RowsOfProcessed(_, _)
RowsOfProcessed(files, moved) ==
    IF files = <<>> \/ moved = <<>> THEN <<>>
    ELSE (IF Head(moved) = "already_processed" THEN Head(files).rows ELSE <<>>)
         \o RowsOfProcessed(Tail(files), Tail(moved))

\* C26: the combined batch holds the rows of exactly the files that were routed to
\* already_processed; the rows of a file that ended in not_processed are not in it.
C26_RoutingAgreesWithBatch ==
    run.pc \in {"files", "rows", "done"} =>
        run.combined_df = RowsOfProcessed(run.files, run.moved)

(***************************************************************************)
(* Properties of the vendor reference and of a failed call                 *)
(***************************************************************************)
\* C27: table vendor never holds a name twice; a call of the gate that accepts its
\* row writes it with the id of the vendor of the row's vendorName, a vendor that the
\* call created only if the table did not hold the name; a call that ends in
\* Duplicate creates no vendor.
C27_VendorFindOrCreate ==
    /\ \A i, j \in DOMAIN vendor : i < j => vendor[i] # vendor[j]
    /\ last_call.op \in {"main", "st"} =>
          LET name == last_call.row.vendorName
              had == \E i \in DOMAIN last_call.vendors : last_call.vendors[i] = name
          IN /\ last_call.result = "duplicate" => vendor = last_call.vendors
             /\ last_call.result = "stored" =>
                   /\ vendor = IF had THEN last_call.vendors
                               ELSE Append(last_call.vendors, name)
                   /\ LET t == accountTransaction[Len(accountTransaction)] IN
                      /\ t.vendor_id \in DOMAIN vendor
                      /\ vendor[t.vendor_id] = name

\* A second row of the vendor "ACME store" was accepted: the vendor was reused.
C27_Witness ==
    /\ last_call.op = "main"
    /\ last_call.result = "stored"
    /\ last_call.vendors = <<"ACME store">>
    /\ vendor = <<"ACME store">>
    /\ Len(accountTransaction) = 2
    /\ accountTransaction[1].vendor_id = 1
    /\ accountTransaction[2].vendor_id = 1

\* C29: a call of the gate that fails after the duplicate check (while the vendor or
\* the transaction is written) surfaces the error, raised by main and status error in
\* streamlit_app, and leaves both tables as they were before the call: neither the
\* transaction nor a vendor created for it is kept.
C29_FailedCallLeavesStore ==
    last_call.op \in {"main", "st"} =>
        /\ (last_call.fault = "write" /\ last_call.result # "duplicate") =>
              last_call.result = IF last_call.op = "main" THEN "raised" ELSE "error"
        /\ last_call.result \in {"raised", "error"} =>
              /\ accountTransaction = last_call.before
              /\ vendor = last_call.vendors

\* The write of a row with a vendor the table did not hold failed, in a store that
\* holds a row: the tables are as before.
C29_Witness ==
    /\ last_call.op = "main"
    /\ last_call.fault = "write"
    /\ last_call.result = "raised"
    /\ last_call.row = RowDesc
    /\ last_call.vendors = <<"ACME store">>
    /\ vendor = <<"ACME store">>
    /\ accountTransaction = last_call.before
    /\ Len(accountTransaction) = 1

\* The accounting equation of a set of counters.
Balanced(stats) == stats.total = stats.successful + stats.duplicates + stats.failed

\* C28: at every point of a run of main.read_all_csv_from_folder and of
\* streamlit_app.process_csv_files, also when a whole file fails, the counters satisfy
\* total = successful + duplicates + failed.
C28_StatsAccounting == Balanced(run.transaction_stats) /\ Balanced(up.stats)

\* C30: streamlit_app.store_transaction_in_db and update_transaction change nothing in
\* the store when no user is logged in and return an error status / False;
\* update_transaction changes at most the transaction it names, and only when the
\* current user created it; for a transaction of another user it changes nothing and
\* returns False.
C30_OwnerOnlyAccess ==
    /\ (last_call.op \in {"st", "update"} /\ last_call.user = 0) =>
          /\ accountTransaction = last_call.before
          /\ vendor = last_call.vendors
          /\ last_call.result \in {"error", "False"}
    /\ last_call.op = "update" =>
          /\ Len(accountTransaction) = Len(last_call.before)
          /\ \A i \in DOMAIN last_call.before :
                accountTransaction[i] # last_call.before[i] =>
                    /\ i = last_call.id
                    /\ last_call.before[i].created_by = last_call.user
                    /\ accountTransaction[i].created_by = last_call.user
                    /\ last_call.result = "True"
          /\ (last_call.id \in DOMAIN last_call.before
                /\ last_call.before[last_call.id].created_by # last_call.user) =>
                /\ accountTransaction = last_call.before
                /\ vendor = last_call.vendors
                /\ last_call.result = "False"
          /\ last_call.result = "False" =>
                accountTransaction = last_call.before /\ vendor = last_call.vendors

\* a logged-in user asked, the store working, to change a transaction another user created
C30_Witness ==
    /\ last_call.op = "update"
    /\ last_call.user \in Users
    /\ last_call.fault = "none"
    /\ last_call.id \in DOMAIN last_call.before
    /\ last_call.before[last_call.id].created_by \in Users \ {last_call.user}
    /\ last_call.result = "False"

\* C30: an update by the owner went through and changed the transaction
C30_OwnerUpdated ==
    /\ last_call.op = "update"
    /\ last_call.result = "True"
    /\ accountTransaction # last_call.before

\* C30: a call without a logged-in user, on a table that holds transactions
C30_NobodyLoggedIn ==
    /\ last_call.op \in {"st", "update"}
    /\ last_call.user = 0
    /\ last_call.before # <<>>

====
